---- MODULE Spec2Model ----
(***************************************************************************)
(* SPSCQueue<T> (src/src/c++/queue.hpp): a single-producer, single-        *)
(* consumer ring buffer. One producer thread runs push/tryPush, one        *)
(* consumer thread runs pop/tryPop, and size()/isEmpty() run on the        *)
(* producer thread, the consumer thread or a third observer thread.        *)
(* Every access to an atomic cursor or to a storage slot is one step, so   *)
(* the slot write and the cursor store of a push, and the slot read and    *)
(* the cursor store of a pop, are separate steps the other thread can      *)
(* interleave with. Thread-private computation between two shared accesses *)
(* is folded into the step of the access that precedes it.                 *)
(***************************************************************************)
EXTENDS Integers, Sequences, FiniteSets, TLC

\* size_t is modelled as an unsigned integer of WordBits bits.
WordBits == 20
\* Queues are constructed with 2^1 .. 2^MaxLogSlots slots.
MaxLogSlots == 2
\* The producer has at most MaxOps values accepted over a run.
MaxOps == 5
\* recommendedSlots is asked about element sizes 1..MaxElemSize and 2^0..2^MaxLogElemSize.
MaxElemSize == 40
MaxLogElemSize == 19
\* The constructor is called with 0..MaxSlotsArg slots.
MaxSlotsArg == 100

\* #define CACHE_LINE 64
CACHE_LINE == 64

Word == 2 ^ WordBits

VARIABLES
    slots,              \* items.size(), fixed by the constructor
    items,              \* std::vector<T> items
    producer,           \* producer.cursor
    consumer,           \* consumer.cursor
    push_cursor_cache,  \* push_cursor_cache.cursor (producer thread only)
    pop_cursor_cache,   \* pop_cursor_cache.cursor (consumer thread only)
    ppc, p_op, p_index, p_next, p_value, p_ret,   \* producer thread
    cpc, c_op, c_index, c_value, c_out, c_ret,    \* consumer thread
    qpc, q_who, q_op, q_write, q_size, q_empty,   \* the thread inside size()/isEmpty()
    pushed,             \* history: values accepted by push and successful tryPush
    popped,             \* history: values returned by pop and successful tryPop
    p_sawRoom,          \* history: the ring had a free slot when the producer's call began
    c_sawData,          \* history: the ring held an element when the consumer's call began
    q_seen,             \* history: occupancies the ring had during the size()/isEmpty() call
    elem_size,          \* sizeof(T) of the recommendedSlots<T>() call
    rec_slots,          \* recommendedSlots: local slots
    rec_state,          \* recommendedSlots: "none", "returned" or "fault" (assert failed)
    slots_arg,          \* SPSCQueue(size_t slots_): the argument
    ctor_state,         \* SPSCQueue(size_t slots_): "none", "constructed" or "fault"
    dual,               \* a queue driven by push/pop beside one driven by tryPush/tryPop loops
    rtt                 \* the benchmark's round trip: queues q1, q2 and threads A, B

queueVars == <<slots, items, producer, consumer, push_cursor_cache, pop_cursor_cache>>
prodVars  == <<ppc, p_op, p_index, p_next, p_value, p_ret, p_sawRoom>>
consVars  == <<cpc, c_op, c_index, c_value, c_out, c_ret, c_sawData>>
queryVars == <<qpc, q_who, q_op, q_write, q_size, q_empty, q_seen>>
histVars  == <<pushed, popped>>
buildVars == <<elem_size, rec_slots, rec_state, slots_arg, ctor_state>>
auxVars   == <<buildVars, dual, rtt>>
vars == <<queueVars, prodVars, consVars, queryVars, histVars, auxVars>>

----------------------------------------------------------------------------
\* Unsigned size_t arithmetic.

RECURSIVE BitAnd(_, _)
BitAnd(a, b) ==
    IF a = 0 \/ b = 0 THEN 0
    ELSE (a % 2) * (b % 2) + 2 * BitAnd(a \div 2, b \div 2)

\* items.size() - 1, the index mask
Mask == (slots - 1) % Word

\* nextIndex with the mask forgotten
nextIndexUnmasked(i) == (i + 1) % Word

\* nextIndex: (i + 1) & (items.size() - 1)
nextIndex(i) == BitAnd((i + 1) % Word, Mask)

\* size() with the cursors subtracted the other way round
sizeOfSwapped(write_index, read_index) ==
    BitAnd((read_index - write_index) % Word, Mask)

\* size() with the mask forgotten
sizeOfUnmasked(write_index, read_index) == (write_index - read_index) % Word

\* size(): (write_index - read_index) & (items.size() - 1)
sizeOf(write_index, read_index) ==
    BitAnd((write_index - read_index) % Word, Mask)

\* isEmpty(): write_index == read_index
isEmptyOf(write_index, read_index) == write_index = read_index

\* Completed pushes minus completed pops.
Occupancy == Len(pushed) - Len(popped)

SlotCounts == {2 ^ k : k \in 1..MaxLogSlots}

----------------------------------------------------------------------------
\* SPSCQueue(size_t slots_): items(slots_) value-initialises every slot;
\* the cursors and both caches start at 0.

\* No thread has called anything yet.
ThreadsIdle ==
    /\ ppc = "idle" /\ p_op = "none" /\ p_index = 0 /\ p_next = 0
    /\ p_value = 0 /\ p_ret = FALSE /\ p_sawRoom = FALSE
    /\ cpc = "idle" /\ c_op = "none" /\ c_index = 0 /\ c_value = 0
    /\ c_out = 0 /\ c_ret = FALSE /\ c_sawData = FALSE
    /\ qpc = "idle" /\ q_who = "none" /\ q_op = "none" /\ q_write = 0
    /\ q_size = 0 /\ q_empty = FALSE /\ q_seen = {}
    /\ pushed = <<>>
    /\ popped = <<>>

\* recommendedSlots has not been called.
NotAsked == elem_size = 0 /\ rec_slots = 0 /\ rec_state = "none"

Init ==
    /\ slots \in SlotCounts
    /\ items = [i \in 0..(slots - 1) |-> 0]
    /\ producer = 0
    /\ consumer = 0
    /\ push_cursor_cache = 0
    /\ pop_cursor_cache = 0
    /\ ThreadsIdle
    /\ NotAsked
    /\ slots_arg = slots /\ ctor_state = "constructed"
    /\ dual = <<>> /\ rtt = <<>>

\* The thread `who` is inside size() or isEmpty().
Querying(who) == qpc = "loaded" /\ q_who = who

\* A cursor store changes the occupancy a running size()/isEmpty() call overlaps.
Seen(occ) == IF qpc = "loaded" THEN q_seen \cup {occ} ELSE q_seen

----------------------------------------------------------------------------
\* Producer thread: push(const T& value), queue.hpp:89-103. The producer pushes
\* 1, 2, 3, ... as producerThroughput pushes its loop counter.

\* :91-94  index = producer.cursor.load(relaxed); next = nextIndex(index);
\*         first evaluation of `next == push_cursor_cache.cursor`
Push_Load ==
    /\ ppc = "idle" /\ ~Querying("producer")
    /\ Len(pushed) < MaxOps
    /\ p_op' = "push"
    /\ p_value' = Len(pushed) + 1
    /\ p_index' = producer
    /\ p_next' = nextIndex(producer)
    /\ p_sawRoom' = (Occupancy < slots - 1)
    /\ ppc' = IF nextIndex(producer) = push_cursor_cache THEN "refresh" ELSE "write"
    /\ UNCHANGED <<queueVars, p_ret, consVars, queryVars, histVars>>
    /\ UNCHANGED auxVars

\* push with `if` in place of `while`: one refresh, then the write
Push_Refresh_Once ==
    /\ ppc = "refresh" /\ p_op = "push"
    /\ push_cursor_cache' = consumer
    /\ ppc' = "write"
    /\ UNCHANGED <<slots, items, producer, consumer, pop_cursor_cache>>
    /\ UNCHANGED <<p_op, p_index, p_next, p_value, p_ret, p_sawRoom>>
    /\ UNCHANGED <<consVars, queryVars, histVars>>
    /\ UNCHANGED auxVars

\* :98, :94  push_cursor_cache.cursor = consumer.cursor.load(acquire); loop test
Push_Refresh ==
    /\ ppc = "refresh" /\ p_op = "push"
    /\ push_cursor_cache' = consumer
    /\ ppc' = IF p_next = consumer THEN "refresh" ELSE "write"
    /\ UNCHANGED <<slots, items, producer, consumer, pop_cursor_cache>>
    /\ UNCHANGED <<p_op, p_index, p_next, p_value, p_ret, p_sawRoom>>
    /\ UNCHANGED <<consVars, queryVars, histVars>>
    /\ UNCHANGED auxVars

\* :101  items[index] = value
Push_Write ==
    /\ ppc = "write" /\ p_op = "push"
    /\ items' = [items EXCEPT ![p_index] = p_value]
    /\ ppc' = "store"
    /\ UNCHANGED <<slots, producer, consumer, push_cursor_cache, pop_cursor_cache>>
    /\ UNCHANGED <<p_op, p_index, p_next, p_value, p_ret, p_sawRoom>>
    /\ UNCHANGED <<consVars, queryVars, histVars>>
    /\ UNCHANGED auxVars

\* :102-103  producer.cursor.store(next, release); return
Push_Store ==
    /\ ppc = "store" /\ p_op = "push"
    /\ producer' = p_next
    /\ pushed' = Append(pushed, p_value)
    /\ q_seen' = Seen(Occupancy + 1)
    /\ ppc' = "idle" /\ p_ret' = TRUE
    /\ p_index' = 0 /\ p_next' = 0 /\ p_value' = 0
    /\ UNCHANGED <<slots, items, consumer, push_cursor_cache, pop_cursor_cache>>
    /\ UNCHANGED <<p_op, p_sawRoom, consVars, popped>>
    /\ UNCHANGED <<qpc, q_who, q_op, q_write, q_size, q_empty>>
    /\ UNCHANGED auxVars

\* push publishing the cursor before it writes the slot
Push_StoreEarly ==
    /\ ppc = "write" /\ p_op = "push"
    /\ producer' = p_next
    /\ pushed' = Append(pushed, p_value)
    /\ q_seen' = Seen(Occupancy + 1)
    /\ ppc' = "store"
    /\ UNCHANGED <<slots, items, consumer, push_cursor_cache, pop_cursor_cache>>
    /\ UNCHANGED <<p_op, p_index, p_next, p_value, p_ret, p_sawRoom, consVars, popped>>
    /\ UNCHANGED <<qpc, q_who, q_op, q_write, q_size, q_empty>>
    /\ UNCHANGED auxVars

Push_WriteLate ==
    /\ ppc = "store" /\ p_op = "push"
    /\ items' = [items EXCEPT ![p_index] = p_value]
    /\ ppc' = "idle" /\ p_ret' = TRUE
    /\ p_index' = 0 /\ p_next' = 0 /\ p_value' = 0
    /\ UNCHANGED <<slots, producer, consumer, push_cursor_cache, pop_cursor_cache>>
    /\ UNCHANGED <<p_op, p_sawRoom, consVars, queryVars, histVars>>
    /\ UNCHANGED auxVars

push_StoreFirst == Push_Load \/ Push_Refresh \/ Push_StoreEarly \/ Push_WriteLate

push == Push_Load \/ Push_Refresh \/ Push_Write \/ Push_Store

\* Producer thread: tryPush(const T& value), queue.hpp:105-118.

\* :107-110  index, next, `if (next == push_cursor_cache.cursor)`
TryPush_Load ==
    /\ ppc = "idle" /\ ~Querying("producer")
    /\ Len(pushed) < MaxOps
    /\ p_op' = "tryPush"
    /\ p_value' = Len(pushed) + 1
    /\ p_index' = producer
    /\ p_next' = nextIndex(producer)
    /\ p_sawRoom' = (Occupancy < slots - 1)
    /\ ppc' = IF nextIndex(producer) = push_cursor_cache THEN "refresh" ELSE "write"
    /\ UNCHANGED <<queueVars, p_ret, consVars, queryVars, histVars>>
    /\ UNCHANGED auxVars

\* tryPush without the second test: it writes whenever it has refreshed
TryPush_Refresh_NoRecheck ==
    /\ ppc = "refresh" /\ p_op = "tryPush"
    /\ push_cursor_cache' = consumer
    /\ ppc' = "write"
    /\ UNCHANGED <<slots, items, producer, consumer, pop_cursor_cache>>
    /\ UNCHANGED <<p_op, p_index, p_next, p_value, p_ret, p_sawRoom>>
    /\ UNCHANGED <<consVars, queryVars, histVars>>
    /\ UNCHANGED auxVars

\* tryPush refreshing its cache from the producer cursor
TryPush_Refresh_WrongCursor ==
    /\ ppc = "refresh" /\ p_op = "tryPush"
    /\ push_cursor_cache' = producer
    /\ IF p_next = producer
       THEN /\ ppc' = "idle" /\ p_ret' = FALSE
            /\ p_index' = 0 /\ p_next' = 0 /\ p_value' = 0
       ELSE /\ ppc' = "write"
            /\ UNCHANGED <<p_index, p_next, p_value, p_ret>>
    /\ UNCHANGED <<slots, items, producer, consumer, pop_cursor_cache>>
    /\ UNCHANGED <<p_op, p_sawRoom, consVars, queryVars, histVars>>
    /\ UNCHANGED auxVars

\* tryPush giving up after the refresh without testing again
TryPush_Refresh_AlwaysFails ==
    /\ ppc = "refresh" /\ p_op = "tryPush"
    /\ push_cursor_cache' = consumer
    /\ ppc' = "idle" /\ p_ret' = FALSE
    /\ p_index' = 0 /\ p_next' = 0 /\ p_value' = 0
    /\ UNCHANGED <<slots, items, producer, consumer, pop_cursor_cache>>
    /\ UNCHANGED <<p_op, p_sawRoom, consVars, queryVars, histVars>>
    /\ UNCHANGED auxVars

\* :111-112  refresh the cache; `if (next == push_cursor_cache.cursor) return false`
TryPush_Refresh ==
    /\ ppc = "refresh" /\ p_op = "tryPush"
    /\ push_cursor_cache' = consumer
    /\ IF p_next = consumer
       THEN /\ ppc' = "idle" /\ p_ret' = FALSE
            /\ p_index' = 0 /\ p_next' = 0 /\ p_value' = 0
       ELSE /\ ppc' = "write"
            /\ UNCHANGED <<p_index, p_next, p_value, p_ret>>
    /\ UNCHANGED <<slots, items, producer, consumer, pop_cursor_cache>>
    /\ UNCHANGED <<p_op, p_sawRoom, consVars, queryVars, histVars>>
    /\ UNCHANGED auxVars

\* :115  items[index] = value
TryPush_Write ==
    /\ ppc = "write" /\ p_op = "tryPush"
    /\ items' = [items EXCEPT ![p_index] = p_value]
    /\ ppc' = "store"
    /\ UNCHANGED <<slots, producer, consumer, push_cursor_cache, pop_cursor_cache>>
    /\ UNCHANGED <<p_op, p_index, p_next, p_value, p_ret, p_sawRoom>>
    /\ UNCHANGED <<consVars, queryVars, histVars>>
    /\ UNCHANGED auxVars

\* :116-117  producer.cursor.store(next, release); return true
TryPush_Store ==
    /\ ppc = "store" /\ p_op = "tryPush"
    /\ producer' = p_next
    /\ pushed' = Append(pushed, p_value)
    /\ q_seen' = Seen(Occupancy + 1)
    /\ ppc' = "idle" /\ p_ret' = TRUE
    /\ p_index' = 0 /\ p_next' = 0 /\ p_value' = 0
    /\ UNCHANGED <<slots, items, consumer, push_cursor_cache, pop_cursor_cache>>
    /\ UNCHANGED <<p_op, p_sawRoom, consVars, popped>>
    /\ UNCHANGED <<qpc, q_who, q_op, q_write, q_size, q_empty>>
    /\ UNCHANGED auxVars

tryPush == TryPush_Load \/ TryPush_Refresh \/ TryPush_Write \/ TryPush_Store

----------------------------------------------------------------------------
\* Consumer thread: pop(), queue.hpp:120-131.

\* :122-123  index = consumer.cursor.load(relaxed); first loop test
Pop_Load ==
    /\ cpc = "idle" /\ ~Querying("consumer")
    /\ c_op' = "pop"
    /\ c_index' = consumer
    /\ c_sawData' = (Occupancy >= 1)
    /\ cpc' = IF consumer = pop_cursor_cache THEN "refresh" ELSE "read"
    /\ UNCHANGED <<queueVars, c_value, c_out, c_ret, prodVars, queryVars, histVars>>
    /\ UNCHANGED auxVars

\* pop with `if` in place of `while`: one refresh, then the read
Pop_Refresh_Once ==
    /\ cpc = "refresh" /\ c_op = "pop"
    /\ pop_cursor_cache' = producer
    /\ cpc' = "read"
    /\ UNCHANGED <<slots, items, producer, consumer, push_cursor_cache>>
    /\ UNCHANGED <<c_op, c_index, c_value, c_out, c_ret, c_sawData>>
    /\ UNCHANGED <<prodVars, queryVars, histVars>>
    /\ UNCHANGED auxVars

\* pop spinning on its cached snapshot without reloading the producer cursor
Pop_Refresh_NoReload ==
    /\ cpc = "refresh" /\ c_op = "pop"
    /\ cpc' = IF c_index = pop_cursor_cache THEN "refresh" ELSE "read"
    /\ UNCHANGED <<queueVars, c_op, c_index, c_value, c_out, c_ret, c_sawData>>
    /\ UNCHANGED <<prodVars, queryVars, histVars>>
    /\ UNCHANGED auxVars

\* :124-125, :123  _mm_pause(); pop_cursor_cache.cursor = producer.cursor.load(acquire)
Pop_Refresh ==
    /\ cpc = "refresh" /\ c_op = "pop"
    /\ pop_cursor_cache' = producer
    /\ cpc' = IF c_index = producer THEN "refresh" ELSE "read"
    /\ UNCHANGED <<slots, items, producer, consumer, push_cursor_cache>>
    /\ UNCHANGED <<c_op, c_index, c_value, c_out, c_ret, c_sawData>>
    /\ UNCHANGED <<prodVars, queryVars, histVars>>
    /\ UNCHANGED auxVars

\* :128  T const value = items[index]
Pop_Read ==
    /\ cpc = "read" /\ c_op = "pop"
    /\ c_value' = items[c_index]
    /\ cpc' = "store"
    /\ UNCHANGED <<queueVars, c_op, c_index, c_out, c_ret, c_sawData>>
    /\ UNCHANGED <<prodVars, queryVars, histVars>>
    /\ UNCHANGED auxVars

\* :129-130  consumer.cursor.store(nextIndex(index), release); return value
Pop_Store ==
    /\ cpc = "store" /\ c_op = "pop"
    /\ consumer' = nextIndex(c_index)
    /\ popped' = Append(popped, c_value)
    /\ q_seen' = Seen(Occupancy - 1)
    /\ c_out' = c_value
    /\ cpc' = "idle" /\ c_ret' = TRUE
    /\ c_index' = 0 /\ c_value' = 0
    /\ UNCHANGED <<slots, items, producer, push_cursor_cache, pop_cursor_cache>>
    /\ UNCHANGED <<c_op, c_sawData, prodVars, pushed>>
    /\ UNCHANGED <<qpc, q_who, q_op, q_write, q_size, q_empty>>
    /\ UNCHANGED auxVars

pop == Pop_Load \/ Pop_Refresh \/ Pop_Read \/ Pop_Store

\* Consumer thread: tryPop(T& out), queue.hpp:133-144.

\* :135-136  index; `if (index == pop_cursor_cache.cursor)`
TryPop_Load ==
    /\ cpc = "idle" /\ ~Querying("consumer")
    /\ c_op' = "tryPop"
    /\ c_index' = consumer
    /\ c_sawData' = (Occupancy >= 1)
    /\ cpc' = IF consumer = pop_cursor_cache THEN "refresh" ELSE "read"
    /\ UNCHANGED <<queueVars, c_value, c_out, c_ret, prodVars, queryVars, histVars>>
    /\ UNCHANGED auxVars

\* tryPop copying the slot into `out` before it knows the ring is not empty
TryPop_Refresh_ReadsFirst ==
    /\ cpc = "refresh" /\ c_op = "tryPop"
    /\ pop_cursor_cache' = producer
    /\ c_out' = items[c_index]
    /\ IF c_index = producer
       THEN /\ cpc' = "idle" /\ c_ret' = FALSE /\ c_index' = 0
       ELSE /\ cpc' = "read" /\ UNCHANGED <<c_index, c_ret>>
    /\ UNCHANGED <<slots, items, producer, consumer, push_cursor_cache>>
    /\ UNCHANGED <<c_op, c_value, c_sawData>>
    /\ UNCHANGED <<prodVars, queryVars, histVars>>
    /\ UNCHANGED auxVars

\* tryPop refreshing its cache from the consumer cursor
TryPop_Refresh_OwnCursor ==
    /\ cpc = "refresh" /\ c_op = "tryPop"
    /\ pop_cursor_cache' = consumer
    /\ IF c_index = consumer
       THEN /\ cpc' = "idle" /\ c_ret' = FALSE /\ c_index' = 0
       ELSE /\ cpc' = "read" /\ UNCHANGED <<c_index, c_ret>>
    /\ UNCHANGED <<slots, items, producer, consumer, push_cursor_cache>>
    /\ UNCHANGED <<c_op, c_value, c_out, c_sawData>>
    /\ UNCHANGED <<prodVars, queryVars, histVars>>
    /\ UNCHANGED auxVars

\* tryPop storing the refreshed snapshot in the producer's cache
TryPop_Refresh_WrongCache ==
    /\ cpc = "refresh" /\ c_op = "tryPop"
    /\ push_cursor_cache' = producer
    /\ IF c_index = producer
       THEN /\ cpc' = "idle" /\ c_ret' = FALSE /\ c_index' = 0
       ELSE /\ cpc' = "read" /\ UNCHANGED <<c_index, c_ret>>
    /\ UNCHANGED <<slots, items, producer, consumer, pop_cursor_cache>>
    /\ UNCHANGED <<c_op, c_value, c_out, c_sawData>>
    /\ UNCHANGED <<prodVars, queryVars, histVars>>
    /\ UNCHANGED auxVars

\* :137-138  refresh the cache; `if (index == pop_cursor_cache.cursor) return false`
TryPop_Refresh ==
    /\ cpc = "refresh" /\ c_op = "tryPop"
    /\ pop_cursor_cache' = producer
    /\ IF c_index = producer
       THEN /\ cpc' = "idle" /\ c_ret' = FALSE /\ c_index' = 0
       ELSE /\ cpc' = "read" /\ UNCHANGED <<c_index, c_ret>>
    /\ UNCHANGED <<slots, items, producer, consumer, push_cursor_cache>>
    /\ UNCHANGED <<c_op, c_value, c_out, c_sawData>>
    /\ UNCHANGED <<prodVars, queryVars, histVars>>
    /\ UNCHANGED auxVars

\* :141  out = items[index]
TryPop_Read ==
    /\ cpc = "read" /\ c_op = "tryPop"
    /\ c_out' = items[c_index]
    /\ cpc' = "store"
    /\ UNCHANGED <<queueVars, c_op, c_index, c_value, c_ret, c_sawData>>
    /\ UNCHANGED <<prodVars, queryVars, histVars>>
    /\ UNCHANGED auxVars

\* :142-143  consumer.cursor.store(nextIndex(index), release); return true
TryPop_Store ==
    /\ cpc = "store" /\ c_op = "tryPop"
    /\ consumer' = nextIndex(c_index)
    /\ popped' = Append(popped, c_out)
    /\ q_seen' = Seen(Occupancy - 1)
    /\ cpc' = "idle" /\ c_ret' = TRUE
    /\ c_index' = 0
    /\ UNCHANGED <<slots, items, producer, push_cursor_cache, pop_cursor_cache>>
    /\ UNCHANGED <<c_op, c_value, c_out, c_sawData, prodVars, pushed>>
    /\ UNCHANGED <<qpc, q_who, q_op, q_write, q_size, q_empty>>
    /\ UNCHANGED auxVars

tryPop == TryPop_Load \/ TryPop_Refresh \/ TryPop_Read \/ TryPop_Store

----------------------------------------------------------------------------
\* size() and isEmpty(), queue.hpp:146-158, called by the producer thread (between
\* its pushes), the consumer thread (between its pops) or a third thread.

Threads == {"producer", "consumer", "observer"}

Free(who) ==
    /\ qpc = "idle"
    /\ who = "producer" => ppc = "idle"
    /\ who = "consumer" => cpc = "idle"

\* :148  write_index = producer.cursor.load(acquire)
Size_LoadWrite(who) ==
    /\ Free(who)
    /\ qpc' = "loaded" /\ q_who' = who /\ q_op' = "size"
    /\ q_write' = producer
    /\ q_seen' = {Occupancy}
    /\ q_size' = 0 /\ q_empty' = FALSE
    /\ UNCHANGED <<queueVars, prodVars, consVars, histVars>>
    /\ UNCHANGED auxVars

\* :149-150  read_index = consumer.cursor.load(acquire); return the masked difference
Size_LoadRead ==
    /\ qpc = "loaded" /\ q_op = "size"
    /\ q_size' = sizeOf(q_write, consumer)
    /\ qpc' = "idle" /\ q_write' = 0
    /\ UNCHANGED <<q_who, q_op, q_empty, q_seen>>
    /\ UNCHANGED <<queueVars, prodVars, consVars, histVars>>
    /\ UNCHANGED auxVars

size == (\E who \in Threads : Size_LoadWrite(who)) \/ Size_LoadRead

\* :155  write_index = producer.cursor.load(acquire)
IsEmpty_LoadWrite(who) ==
    /\ Free(who)
    /\ qpc' = "loaded" /\ q_who' = who /\ q_op' = "isEmpty"
    /\ q_write' = producer
    /\ q_seen' = {Occupancy}
    /\ q_size' = 0 /\ q_empty' = FALSE
    /\ UNCHANGED <<queueVars, prodVars, consVars, histVars>>
    /\ UNCHANGED auxVars

\* :156-157  read_index = consumer.cursor.load(acquire); return write_index == read_index
IsEmpty_LoadRead ==
    /\ qpc = "loaded" /\ q_op = "isEmpty"
    /\ q_empty' = isEmptyOf(q_write, consumer)
    /\ qpc' = "idle" /\ q_write' = 0
    /\ UNCHANGED <<q_who, q_op, q_size, q_seen>>
    /\ UNCHANGED <<queueVars, prodVars, consVars, histVars>>
    /\ UNCHANGED auxVars

isEmpty == (\E who \in Threads : IsEmpty_LoadWrite(who)) \/ IsEmpty_LoadRead

----------------------------------------------------------------------------
Next == push \/ tryPush \/ pop \/ tryPop \/ size \/ isEmpty

Spec == Init /\ [][Next]_vars

----------------------------------------------------------------------------
\* The benchmark's throughput run, benchmark.cpp:24-37 and :59-66: the producer
\* thread makes `iterations` blocking pushes, the consumer thread as many
\* blocking pops. MaxOps stands for `iterations`.

producerThroughput == push

consumerThroughput ==
    /\ cpc = "idle" => Len(popped) < MaxOps
    /\ pop

NextThroughput == producerThroughput \/ consumerThroughput

\* Both threads are scheduled fairly: each runs on a core of its own (pinToCore).
SpecThroughput ==
    /\ Init
    /\ [][NextThroughput]_vars
    /\ WF_vars(producerThroughput)
    /\ WF_vars(consumerThroughput)

ThroughputDone ==
    /\ ppc = "idle" /\ cpc = "idle"
    /\ Len(pushed) = MaxOps /\ Len(popped) = MaxOps

----------------------------------------------------------------------------
\* Choosing a slot count and constructing the queue, queue.hpp:42-48 and :85-87.
\* assert is taken as compiled in: a failed assertion aborts the program.

\* :44  constexpr size_t sweet_spot = 4096 * CACHE_LINE
sweet_spot == 4096 * CACHE_LINE

\* :46, :86  (n & (n - 1)) == 0 on size_t
clearsLowestBit(n) == BitAnd(n, (n - 1) % Word) = 0

ElemSizes == (1..MaxElemSize) \cup {2 ^ k : k \in 0..MaxLogElemSize}

\* :43-47  slots = sweet_spot / sizeof(T); assert(...); return slots
recommendedSlots(sizeof_T) ==
    /\ rec_state = "none" /\ ctor_state = "none"
    /\ elem_size' = sizeof_T
    /\ rec_slots' = sweet_spot \div sizeof_T
    /\ rec_state' = IF clearsLowestBit(sweet_spot \div sizeof_T) /\ sweet_spot \div sizeof_T >= 2
                    THEN "returned" ELSE "fault"
    /\ UNCHANGED <<queueVars, prodVars, consVars, queryVars, histVars>>
    /\ UNCHANGED <<slots_arg, ctor_state, dual, rtt>>

\* The slot counts a caller passes: any small number, or what recommendedSlots
\* returned (benchmark.cpp:18, :60).
SlotArgs ==
    (0..MaxSlotsArg) \cup (IF rec_state = "returned" THEN {rec_slots} ELSE {})

\* :85-87  items(slots_), then assert((slots_ & (slots_ - 1)) == 0)
SPSCQueue(slots_) ==
    /\ ctor_state = "none" /\ rec_state # "fault"
    /\ slots_arg' = slots_
    /\ IF clearsLowestBit(slots_)
       THEN /\ ctor_state' = "constructed"
            /\ slots' = slots_
            /\ items' = [i \in 0..(slots_ - 1) |-> 0]
       ELSE /\ ctor_state' = "fault"
            /\ UNCHANGED <<slots, items>>
    /\ UNCHANGED <<producer, consumer, push_cursor_cache, pop_cursor_cache>>
    /\ UNCHANGED <<prodVars, consVars, queryVars, histVars>>
    /\ UNCHANGED <<elem_size, rec_slots, rec_state, dual, rtt>>

\* Before the constructor has run there is no queue.
Unbuilt ==
    /\ slots = 0 /\ items = <<>>
    /\ producer = 0 /\ consumer = 0
    /\ push_cursor_cache = 0 /\ pop_cursor_cache = 0
    /\ ThreadsIdle
    /\ NotAsked
    /\ slots_arg = 0 /\ ctor_state = "none"

InitConstruct == Unbuilt /\ dual = <<>> /\ rtt = <<>>

NextConstruct ==
    \/ \E sizeof_T \in ElemSizes : recommendedSlots(sizeof_T)
    \/ \E slots_ \in SlotArgs : SPSCQueue(slots_)

SpecConstruct == InitConstruct /\ [][NextConstruct]_vars

----------------------------------------------------------------------------
\* The queue as a value, for programs that hold more than one SPSCQueue: the
\* data members of one object, and one thread's position inside a call.

\* SPSCQueue(slots_) with a valid slot count n
newQueue(n) ==
    [slots |-> n, items |-> [i \in 0..(n - 1) |-> 0],
     producer |-> 0, consumer |-> 0,
     push_cursor_cache |-> 0, pop_cursor_cache |-> 0]

\* nextIndex on the queue q
nextIndexIn(q, i) == BitAnd((i + 1) % Word, (q.slots - 1) % Word)

\* A thread that is in no call; `value` keeps what its last call passed or got.
idleCall == [pc |-> "idle", op |-> "none", index |-> 0, next |-> 0,
             value |-> 0, ret |-> FALSE]

\* push/tryPush, :91-94 and :107-110: index, next and the test on the cache
producerCall(q, op, v) ==
    [pc |-> IF nextIndexIn(q, q.producer) = q.push_cursor_cache
            THEN "refresh" ELSE "write",
     op |-> op, index |-> q.producer, next |-> nextIndexIn(q, q.producer),
     value |-> v, ret |-> FALSE]

\* push with `if` in place of `while`
producerStep_PushOnce(q, t) ==
    CASE t.pc = "refresh" ->
           <<[q EXCEPT !.push_cursor_cache = q.consumer],
             IF t.next = q.consumer /\ t.op = "tryPush"
             THEN [idleCall EXCEPT !.op = t.op, !.value = t.value]
             ELSE [t EXCEPT !.pc = "write"]>>
      [] t.pc = "write" ->
           <<[q EXCEPT !.items[t.index] = t.value], [t EXCEPT !.pc = "store"]>>
      [] t.pc = "store" ->
           <<[q EXCEPT !.producer = t.next],
             [idleCall EXCEPT !.op = t.op, !.value = t.value, !.ret = TRUE]>>

\* One step of push (:94-103) or tryPush (:110-117) by the thread at t on q:
\* the queue and the thread afterwards.
producerStep(q, t) ==
    CASE t.pc = "refresh" ->
           <<[q EXCEPT !.push_cursor_cache = q.consumer],
             IF t.next = q.consumer
             THEN IF t.op = "push"
                  THEN t
                  ELSE [idleCall EXCEPT !.op = t.op, !.value = t.value]
             ELSE [t EXCEPT !.pc = "write"]>>
      [] t.pc = "write" ->
           <<[q EXCEPT !.items[t.index] = t.value], [t EXCEPT !.pc = "store"]>>
      [] t.pc = "store" ->
           <<[q EXCEPT !.producer = t.next],
             [idleCall EXCEPT !.op = t.op, !.value = t.value, !.ret = TRUE]>>

\* pop/tryPop, :122-123 and :135-136: index and the test on the cache; `out` is
\* what the caller's variable holds
consumerCall(q, op, out) ==
    [pc |-> IF q.consumer = q.pop_cursor_cache THEN "refresh" ELSE "read",
     op |-> op, index |-> q.consumer, next |-> 0, value |-> out, ret |-> FALSE]

\* pop and tryPop reading the slot after the one the cursor names
consumerStep_ReadsNext(q, t) ==
    CASE t.pc = "refresh" ->
           <<[q EXCEPT !.pop_cursor_cache = q.producer],
             IF t.index = q.producer
             THEN IF t.op = "pop"
                  THEN t
                  ELSE [idleCall EXCEPT !.op = t.op, !.value = t.value]
             ELSE [t EXCEPT !.pc = "read"]>>
      [] t.pc = "read" ->
           <<q, [t EXCEPT !.value = q.items[nextIndexIn(q, t.index)], !.pc = "store"]>>
      [] t.pc = "store" ->
           <<[q EXCEPT !.consumer = nextIndexIn(q, t.index)],
             [idleCall EXCEPT !.op = t.op, !.value = t.value, !.ret = TRUE]>>

\* One step of pop (:123-130) or tryPop (:136-143) by the thread at t on q.
consumerStep(q, t) ==
    CASE t.pc = "refresh" ->
           <<[q EXCEPT !.pop_cursor_cache = q.producer],
             IF t.index = q.producer
             THEN IF t.op = "pop"
                  THEN t
                  ELSE [idleCall EXCEPT !.op = t.op, !.value = t.value]
             ELSE [t EXCEPT !.pc = "read"]>>
      [] t.pc = "read" ->
           <<q, [t EXCEPT !.value = q.items[t.index], !.pc = "store"]>>
      [] t.pc = "store" ->
           <<[q EXCEPT !.consumer = nextIndexIn(q, t.index)],
             [idleCall EXCEPT !.op = t.op, !.value = t.value, !.ret = TRUE]>>

----------------------------------------------------------------------------
\* Two queues side by side under one schedule: on dual.blk the producer calls
\* push and the consumer pop; on dual.try each calls tryPush / tryPop again
\* and again until it returns true. Whenever a thread is scheduled it takes its
\* next step on both queues; the return of false and the call that follows it
\* touch nothing shared and are a step of dual.try alone.

newSide(n) ==
    [q |-> newQueue(n), p |-> idleCall, c |-> idleCall, sent |-> 0, got |-> <<>>]

InitDual ==
    /\ Unbuilt
    /\ rtt = <<>>
    /\ \E n \in SlotCounts :
          dual = [blk |-> newSide(n), try |-> newSide(n),
                  pretried |-> FALSE, cretried |-> FALSE]

\* one side after the producer's call of op with the next value
sideProducerCall(s, op) ==
    [s EXCEPT !.p = producerCall(s.q, op, s.sent + 1)]

\* one side after a step of its producer; a returning call has sent its value
sideProducerStep(s) ==
    LET r == producerStep(s.q, s.p) IN
    [s EXCEPT !.q = r[1], !.p = r[2],
              !.sent = IF r[2].pc = "idle" /\ r[2].ret THEN s.sent + 1 ELSE s.sent]

sideConsumerCall(s, op) ==
    [s EXCEPT !.c = consumerCall(s.q, op, s.c.value)]

\* one side after a step of its consumer; a returning call has got its value
sideConsumerStep(s) ==
    LET r == consumerStep(s.q, s.c) IN
    [s EXCEPT !.q = r[1], !.c = r[2],
              !.got = IF r[2].pc = "idle" /\ r[2].ret
                      THEN Append(s.got, r[2].value) ELSE s.got]

dualRest == <<queueVars, prodVars, consVars, queryVars, histVars, buildVars, rtt>>

Dual_ProducerCall ==
    /\ dual.blk.p.pc = "idle" /\ dual.try.p.pc = "idle"
    /\ dual.blk.sent < MaxOps
    /\ dual' = [dual EXCEPT !.blk = sideProducerCall(@, "push"),
                            !.try = sideProducerCall(@, "tryPush")]
    /\ UNCHANGED dualRest

Dual_ProducerStep ==
    /\ dual.blk.p.pc # "idle" /\ dual.try.p.pc # "idle"
    /\ dual' = [dual EXCEPT !.blk = sideProducerStep(@),
                            !.try = sideProducerStep(@)]
    /\ UNCHANGED dualRest

\* tryPush returned false: the caller's loop calls it again with the same value
Dual_ProducerRetry ==
    /\ dual.blk.p.pc # "idle" /\ dual.try.p.pc = "idle"
    /\ dual' = [dual EXCEPT !.try = sideProducerCall(@, "tryPush"),
                            !.pretried = TRUE]
    /\ UNCHANGED dualRest

Dual_ConsumerCall ==
    /\ dual.blk.c.pc = "idle" /\ dual.try.c.pc = "idle"
    /\ dual' = [dual EXCEPT !.blk = sideConsumerCall(@, "pop"),
                            !.try = sideConsumerCall(@, "tryPop")]
    /\ UNCHANGED dualRest

Dual_ConsumerStep ==
    /\ dual.blk.c.pc # "idle" /\ dual.try.c.pc # "idle"
    /\ dual' = [dual EXCEPT !.blk = sideConsumerStep(@),
                            !.try = sideConsumerStep(@)]
    /\ UNCHANGED dualRest

\* tryPop returned false: the caller's loop calls it again
Dual_ConsumerRetry ==
    /\ dual.blk.c.pc # "idle" /\ dual.try.c.pc = "idle"
    /\ dual' = [dual EXCEPT !.try = sideConsumerCall(@, "tryPop"),
                            !.cretried = TRUE]
    /\ UNCHANGED dualRest

NextDual ==
    \/ Dual_ProducerCall \/ Dual_ProducerStep \/ Dual_ProducerRetry
    \/ Dual_ConsumerCall \/ Dual_ConsumerStep \/ Dual_ConsumerRetry

SpecDual == InitDual /\ [][NextDual]_vars

----------------------------------------------------------------------------
\* The round-trip benchmark: two queues of the same slot count and two
\* threads; producerRTT pushes i to q1 and pops from q2, consumerRTT pops from
\* q1 and pushes what it got to q2.

iterations == MaxOps

InitRTT ==
    /\ Unbuilt
    /\ dual = <<>>
    /\ \E n \in SlotCounts :
          rtt = [q1 |-> newQueue(n), q2 |-> newQueue(n),
                 a |-> [i |-> 0, at |-> IF iterations > 0 THEN "push" ELSE "done",
                        t |-> idleCall, xs |-> <<>>],
                 b |-> [i |-> 0, at |-> IF iterations > 0 THEN "pop" ELSE "done",
                        t |-> idleCall, val |-> 0]]

rttRest == <<queueVars, prodVars, consVars, queryVars, histVars, buildVars, dual>>

\* the call, or the next step, of push(v) on q by a thread at t
pushOn(q, t, v) ==
    IF t.pc = "idle" THEN <<q, producerCall(q, "push", v)>> ELSE producerStep(q, t)

\* the call, or the next step, of pop() on q by a thread at t
popOn(q, t) ==
    IF t.pc = "idle" THEN <<q, consumerCall(q, "pop", 0)>> ELSE consumerStep(q, t)

\* producerRTT: q1->push(i)
RTT_A_Push ==
    /\ rtt.a.at = "push"
    /\ LET r == pushOn(rtt.q1, rtt.a.t, rtt.a.i) IN
       rtt' = [rtt EXCEPT !.q1 = r[1],
                          !.a = IF r[2].pc = "idle"
                                THEN [@ EXCEPT !.at = "pop", !.t = idleCall]
                                ELSE [@ EXCEPT !.t = r[2]]]
    /\ UNCHANGED rttRest

\* producerRTT: x = q2->pop(); ++i
RTT_A_Pop ==
    /\ rtt.a.at = "pop"
    /\ LET r == popOn(rtt.q2, rtt.a.t) IN
       rtt' = [rtt EXCEPT !.q2 = r[1],
                          !.a = IF r[2].pc = "idle"
                                THEN [i |-> @.i + 1,
                                      at |-> IF @.i + 1 < iterations
                                             THEN "push" ELSE "done",
                                      t |-> idleCall,
                                      xs |-> Append(@.xs, r[2].value)]
                                ELSE [@ EXCEPT !.t = r[2]]]
    /\ UNCHANGED rttRest

\* consumerRTT: val = q1->pop()
RTT_B_Pop ==
    /\ rtt.b.at = "pop"
    /\ LET r == popOn(rtt.q1, rtt.b.t) IN
       rtt' = [rtt EXCEPT !.q1 = r[1],
                          !.b = IF r[2].pc = "idle"
                                THEN [@ EXCEPT !.at = "push", !.t = idleCall,
                                               !.val = r[2].value]
                                ELSE [@ EXCEPT !.t = r[2]]]
    /\ UNCHANGED rttRest

\* consumerRTT: q2->push(val); ++i
RTT_B_Push ==
    /\ rtt.b.at = "push"
    /\ LET r == pushOn(rtt.q2, rtt.b.t, rtt.b.val) IN
       rtt' = [rtt EXCEPT !.q2 = r[1],
                          !.b = IF r[2].pc = "idle"
                                THEN [@ EXCEPT !.i = @ + 1,
                                               !.at = IF rtt.b.i + 1 < iterations
                                                      THEN "pop" ELSE "done",
                                               !.t = idleCall]
                                ELSE [@ EXCEPT !.t = r[2]]]
    /\ UNCHANGED rttRest

producerRTT == RTT_A_Push \/ RTT_A_Pop

consumerRTT == RTT_B_Pop \/ RTT_B_Push

NextRTT == producerRTT \/ consumerRTT

\* each of the two threads keeps being scheduled
SpecRTT ==
    InitRTT /\ [][NextRTT]_vars /\ WF_vars(producerRTT) /\ WF_vars(consumerRTT)

RTTDone == rtt.a.at = "done" /\ rtt.b.at = "done"

\* the number of elements the cursors of q say it holds
heldIn(q) == (q.producer - q.consumer) % q.slots

\* n = 2^k for some k >= 0
IsPowerOfTwo(n) == \E k \in 0..WordBits : n = 2 ^ k

----------------------------------------------------------------------------
\* C1: FIFO under every interleaving: the values returned by pop and by
\* successful tryPop are, in order, a prefix of the values accepted by push and
\* by successful tryPush; none is duplicated and none is dropped, also after
\* the cursors have wrapped around the ring.
FifoPrefix ==
    /\ Len(popped) <= Len(pushed)
    /\ popped = SubSeq(pushed, 1, Len(popped))

\* More values than the ring has slots went through, the last by tryPush and
\* tryPop, and the consumer cursor has wrapped.
FifoWrapped ==
    /\ Len(popped) > slots
    /\ popped = SubSeq(pushed, 1, Len(popped))
    /\ p_op = "tryPush" /\ c_op = "tryPop"
    /\ ppc = "idle" /\ cpc = "idle"

\* C2: occupancy invariant: completed pushes minus completed pops equals
\* (producer_cursor - consumer_cursor) mod capacity and lies in
\* [0, capacity - 1]; equal cursors mean empty, never full.
OccupancyInvariant ==
    /\ Occupancy = (producer - consumer) % slots
    /\ Occupancy \in 0..(slots - 1)
    /\ (producer = consumer) <=> (Occupancy = 0)

\* A full ring whose producer cursor has wrapped below the consumer cursor.
FullAndWrapped ==
    /\ Occupancy = slots - 1
    /\ producer < consumer
    /\ ppc = "idle" /\ p_ret = TRUE

\* C3: tryPush on a full queue has no effect: every step tryPush takes while
\* the queue holds capacity - 1 elements leaves the storage, both cursors and
\* both cached snapshots as they were (the refresh writes back the value the
\* producer's cache already held), never reaches the slot write, and the
\* step that returns returns false.
TryPushFullNoEffect ==
    [][ (p_op' = "tryPush" /\ ppc' # ppc /\ Occupancy = slots - 1)
        => /\ UNCHANGED queueVars
           /\ ppc' \in {"refresh", "idle"}
           /\ ppc' = "idle" => p_ret' = FALSE ]_vars

\* tryPush has returned false on a ring that was full when it was called.
TryPushRefused ==
    /\ ppc = "idle" /\ p_op = "tryPush" /\ p_ret = FALSE
    /\ ~p_sawRoom
    /\ Occupancy = slots - 1

\* C4: tryPop on an empty queue has no effect: every step tryPop takes while
\* the queue is empty leaves the storage, both cursors, both cached snapshots
\* and the caller's output value as they were, never reaches the slot read,
\* and the step that returns returns false.
TryPopEmptyNoEffect ==
    [][ (c_op' = "tryPop" /\ cpc' # cpc /\ Occupancy = 0)
        => /\ UNCHANGED <<queueVars, c_out>>
           /\ cpc' \in {"refresh", "idle"}
           /\ cpc' = "idle" => c_ret' = FALSE ]_vars

\* tryPop has returned false on a ring emptied by earlier pops; the caller's
\* output still holds the value of the last successful pop.
TryPopRefused ==
    /\ cpc = "idle" /\ c_op = "tryPop" /\ c_ret = FALSE
    /\ ~c_sawData
    /\ Occupancy = 0
    /\ Len(popped) > 0 /\ c_out = popped[Len(popped)]

\* C5: tryPush fails only when the ring is full: the step that returns false
\* is the load of the consumer cursor, taken while the queue holds
\* capacity - 1 elements; and a tryPush called while the queue holds fewer
\* returns true, having written its value to the slot and appended it to the
\* accepted values.
TryPushFailsOnlyWhenFull ==
    /\ [](ppc = "idle" /\ p_op = "tryPush" /\ p_sawRoom => p_ret = TRUE)
    /\ [][ /\ (p_op' = "tryPush" /\ ppc' = "idle" /\ p_ret' = FALSE /\ ppc # "idle")
              => (ppc = "refresh" /\ Occupancy = slots - 1)
           /\ (p_op' = "tryPush" /\ ppc' = "idle" /\ p_ret' = TRUE /\ ppc # "idle")
              => (items[p_index] = p_value /\ pushed' = Append(pushed, p_value)
                  /\ producer' = nextIndex(producer)) ]_vars

\* tryPush has succeeded although the producer's cached snapshot is stale.
TryPushPastStaleCache ==
    /\ ppc = "idle" /\ p_op = "tryPush" /\ p_ret = TRUE /\ p_sawRoom
    /\ push_cursor_cache # consumer
    /\ Len(pushed) > slots

\* C6: tryPop fails only when the ring is empty: the step that returns false
\* is the load of the producer cursor, taken while the queue is empty; and a
\* tryPop called while the queue holds an element returns true with the
\* oldest element not yet popped.
TryPopFailsOnlyWhenEmpty ==
    /\ [](cpc = "idle" /\ c_op = "tryPop" /\ c_sawData => c_ret = TRUE)
    /\ [][ /\ (c_op' = "tryPop" /\ cpc' = "idle" /\ c_ret' = FALSE /\ cpc # "idle")
              => (cpc = "refresh" /\ Occupancy = 0)
           /\ (c_op' = "tryPop" /\ cpc' = "idle" /\ c_ret' = TRUE /\ cpc # "idle")
              => (c_out' = pushed[Len(popped) + 1]
                  /\ popped' = Append(popped, c_out')
                  /\ consumer' = nextIndex(consumer)) ]_vars

\* tryPop has succeeded although the consumer's cached snapshot is stale.
TryPopPastStaleCache ==
    /\ cpc = "idle" /\ c_op = "tryPop" /\ c_ret = TRUE /\ c_sawData
    /\ pop_cursor_cache # producer
    /\ Len(popped) > slots

\* C7: progress of the blocking operations: under fair scheduling of both
\* threads, with the producer making MaxOps blocking pushes and the consumer
\* MaxOps blocking pops, every push and every pop that has begun returns, and
\* both threads finish.
BlockingProgress ==
    /\ (ppc # "idle") ~> (ppc = "idle")
    /\ (cpc # "idle") ~> (cpc = "idle")
    /\ <>[]ThroughputDone

\* Both threads have finished a run of more operations than the ring holds.
ThroughputFinished ==
    /\ ThroughputDone
    /\ MaxOps > slots - 1
    /\ popped = pushed

\* C8 as stated: size() and isEmpty() return a snapshot whichever thread calls
\* them while pushes and pops run: the value size() returns is an occupancy
\* the queue had at some instant of the call, and isEmpty() returns true only
\* if the queue was empty at some instant of the call.
QuerySnapshotAnyThread ==
    /\ (qpc = "idle" /\ q_op = "size") => q_size \in q_seen
    /\ (qpc = "idle" /\ q_op = "isEmpty" /\ q_empty) => 0 \in q_seen

\* C8, amended: size() and isEmpty() return such a snapshot when the producer
\* thread or the consumer thread calls them while the other thread's
\* operations run; called by a third thread, size() returns a value in
\* [0, capacity - 1].
QuerySnapshotOwnThread ==
    /\ (qpc = "idle" /\ q_op = "size" /\ q_who \in {"producer", "consumer"})
       => q_size \in q_seen
    /\ (qpc = "idle" /\ q_op = "isEmpty" /\ q_who \in {"producer", "consumer"} /\ q_empty)
       => 0 \in q_seen
    /\ (qpc = "idle" /\ q_op = "size") => q_size \in 0..(slots - 1)

\* The consumer thread's size() has returned after a call during which the
\* producer completed pushes, and the value is no longer the occupancy.
QueryOverlappedPush ==
    /\ qpc = "idle" /\ q_op = "size" /\ q_who = "consumer"
    /\ Cardinality(q_seen) >= 2
    /\ q_size \in q_seen
    /\ q_size # Occupancy

\* C9: size() called while no push and no pop completes (the single-accessor
\* case) returns pushes minus pops, also when the producer cursor has wrapped
\* to a smaller index than the consumer cursor.
SizeIsPushesMinusPops ==
    (qpc = "idle" /\ q_op = "size" /\ Cardinality(q_seen) = 1) => q_seen = {q_size}

\* size() has just returned a non-zero count on a quiescent queue whose
\* producer cursor is below its consumer cursor.
SizeOfWrappedQueue ==
    /\ qpc = "idle" /\ q_op = "size" /\ q_seen = {q_size}
    /\ ppc = "idle" /\ cpc = "idle"
    /\ producer < consumer
    /\ q_size = Occupancy /\ q_size > 0

\* C10: with no operation in flight, isEmpty() returns true exactly when
\* size() returns 0.
EmptyIffSizeZero ==
    (ppc = "idle" /\ cpc = "idle" /\ qpc = "idle")
    => (isEmptyOf(producer, consumer) <=> (sizeOf(producer, consumer) = 0))

\* A quiescent queue that is empty again after the cursors have wrapped, and
\* one call of isEmpty() has returned true on it.
EmptyAfterWrap ==
    /\ ppc = "idle" /\ cpc = "idle" /\ qpc = "idle"
    /\ Len(popped) > slots /\ Occupancy = 0
    /\ isEmptyOf(producer, consumer) /\ sizeOf(producer, consumer) = 0
    /\ q_op = "isEmpty" /\ q_empty /\ q_seen = {0}

\* C11: constructing a queue with a slot count that is not a power of two
\* always ends in a fault, so no such queue comes to exist.
NonPowerOfTwoFaults ==
    (ctor_state # "none" /\ ~IsPowerOfTwo(slots_arg)) => ctor_state = "fault"

\* C12: constructing a queue with fewer than 2 slots ends in a fault, so every
\* queue that exists has at least 2 slots and can hold an element.
SmallCapacityFaults ==
    /\ (ctor_state # "none" /\ slots_arg < 2) => ctor_state = "fault"
    /\ ctor_state = "constructed" => (slots >= 2 /\ slots - 1 >= 1)

\* C13: recommendedSlots returns, for every positive element size, a slot
\* count that is a power of two and at least 2.
RecommendedIsPowerOfTwo ==
    rec_state # "none"
    => (rec_state = "returned" /\ IsPowerOfTwo(rec_slots) /\ rec_slots >= 2)

\* C14: slot exclusion: the producer is never between its full check and its
\* cursor store (writing slot p_index) while the consumer is between its empty
\* check and its cursor store (reading slot c_index) on the same slot.
SlotExclusion ==
    (ppc \in {"write", "store"} /\ cpc \in {"read", "store"}) => p_index # c_index

\* The producer writes the last free slot of the ring while the consumer reads
\* the oldest element, two slots further on; elements have been popped before.
WriteBesideRead ==
    /\ ppc = "write" /\ cpc = "read"
    /\ p_index # c_index
    /\ nextIndex(p_next) = c_index
    /\ Len(popped) >= 1

\* C15: stale cached snapshots are conservative: the producer's cached consumer
\* snapshot is never ahead of the consumer cursor (the occupancy it implies is
\* at least the real one) and the consumer's cached producer snapshot is never
\* ahead of the producer cursor (the occupancy it implies is at most the real
\* one); a producer past its full check has a free slot, and a consumer past
\* its empty check has an element.
CachesConservative ==
    /\ (producer - push_cursor_cache) % slots >= Occupancy
    /\ (consumer - push_cursor_cache) % slots <= (producer - push_cursor_cache) % slots
    /\ (pop_cursor_cache - consumer) % slots <= Occupancy
    /\ ppc \in {"write", "store"} => Occupancy < slots - 1
    /\ cpc \in {"read", "store"} => Occupancy >= 1

\* Both threads are past their checks, the producer with a cached snapshot
\* that lags the consumer cursor, the consumer with one taken before its last pop.
PastChecksOnStaleCaches ==
    /\ ppc = "write" /\ cpc = "read"
    /\ push_cursor_cache # consumer
    /\ c_index # pop_cursor_cache
    /\ Len(popped) >= 1

\* C16: visibility order of a publish: every slot in the cyclic range
\* [consumer_cursor, producer_cursor) holds the value of the push that filled
\* it, and what pop or tryPop has read from a slot is that value.
PublishedSlotsWritten ==
    /\ \A k \in 0..(((producer - consumer) % slots) - 1) :
          /\ Len(popped) + 1 + k <= Len(pushed)
          /\ items[(consumer + k) % slots] = pushed[Len(popped) + 1 + k]
    /\ (cpc = "store" /\ c_op = "pop")
       => (Len(popped) < Len(pushed) /\ c_value = pushed[Len(popped) + 1])
    /\ (cpc = "store" /\ c_op = "tryPop")
       => (Len(popped) < Len(pushed) /\ c_out = pushed[Len(popped) + 1])

\* A wrapped ring holding two published elements, the older one just read.
ReadOfPublishedSlot ==
    /\ cpc = "store" /\ c_op = "pop"
    /\ c_value = pushed[Len(popped) + 1]
    /\ Occupancy >= 2
    /\ producer < consumer

\* C17: single-writer frame: a step of push or tryPush leaves the consumer
\* cursor and the consumer's cached snapshot alone; a step of pop or tryPop
\* leaves the producer cursor, the producer's cached snapshot and every slot
\* alone; a step of size() or isEmpty() leaves the whole queue alone; the slot
\* count never changes.
SingleWriterFrame ==
    [][ /\ prodVars' # prodVars
           => (consumer' = consumer /\ pop_cursor_cache' = pop_cursor_cache)
        /\ consVars' # consVars
           => (producer' = producer /\ push_cursor_cache' = push_cursor_cache
               /\ items' = items)
        /\ qpc' # qpc => UNCHANGED queueVars
        /\ slots' = slots /\ DOMAIN items' = DOMAIN items ]_vars

\* All six operations have run on a ring whose cursors and caches have moved.
AllOperationsRan ==
    /\ p_op = "tryPush" /\ c_op = "tryPop" /\ q_op = "isEmpty"
    /\ ppc = "idle" /\ cpc = "idle" /\ qpc = "idle"
    /\ Len(popped) > slots
    /\ push_cursor_cache # 0 /\ pop_cursor_cache # 0

\* C18: the blocking and the non-blocking variants are the same protocol:
\* under the same schedule of the peer, push(v) and tryPush(v) called until it
\* returns true leave the same storage, cursors and cached snapshots, and
\* pop() and tryPop called until it returns true return the same values and
\* leave the same queue. While tryPush or tryPop is between a false return and
\* the next call, push or pop is spinning on its refresh; otherwise both are at
\* the same place with the same locals.
BlockingEqualsRetry ==
    /\ dual.blk.q = dual.try.q
    /\ dual.blk.sent = dual.try.sent
    /\ dual.blk.got = dual.try.got
    /\ dual.blk.p.value = dual.try.p.value
    /\ dual.blk.c.value = dual.try.c.value
    /\ IF dual.try.p.pc = "idle"
       THEN dual.blk.p.pc \in {"idle", "refresh"}
       ELSE /\ dual.blk.p.pc = dual.try.p.pc
            /\ dual.blk.p.index = dual.try.p.index
            /\ dual.blk.p.next = dual.try.p.next
    /\ IF dual.try.c.pc = "idle"
       THEN dual.blk.c.pc \in {"idle", "refresh"}
       ELSE /\ dual.blk.c.pc = dual.try.c.pc
            /\ dual.blk.c.index = dual.try.c.index

\* Both loops have had false returns, every value has gone through both
\* queues, and the cursors have wrapped.
BothRetriedAndFinished ==
    /\ dual.pretried /\ dual.cretried
    /\ dual.blk.p.pc = "idle" /\ dual.try.p.pc = "idle"
    /\ dual.blk.c.pc = "idle" /\ dual.try.c.pc = "idle"
    /\ dual.try.sent = MaxOps /\ Len(dual.try.got) = MaxOps
    /\ dual.try.got = dual.blk.got
    /\ MaxOps > dual.try.q.slots

\* C19: in the round-trip arrangement, with both threads fairly scheduled,
\* both loops finish (no deadlock), the k-th pop of thread A from q2 returns
\* the value k-1 that A pushed to q1 in that iteration, and neither queue ever
\* holds more than one element.
RoundTripSafe ==
    /\ \A k \in 1..Len(rtt.a.xs) : rtt.a.xs[k] = k - 1
    /\ heldIn(rtt.q1) <= 1
    /\ heldIn(rtt.q2) <= 1

RoundTrip == []RoundTripSafe /\ <>[]RTTDone

\* Both loops have finished all their iterations and the cursors have wrapped.
RoundTripFinished ==
    /\ RTTDone
    /\ Len(rtt.a.xs) = iterations
    /\ rtt.a.xs[iterations] = iterations - 1
    /\ iterations > rtt.q1.slots - 1

====
